---------------------------- MODULE Spec2Model ----------------------------
(***************************************************************************)
(* The fam-backend REST service: the express handlers of the product,      *)
(* banner, combo and order routes over their mongoose collections.  Each   *)
(* handler is one atomic action: it reads the request, issues its single   *)
(* store call and answers.  The collections are the state; req and res     *)
(* record the last request served and the answer it got.  The requests     *)
(* that race with each other (registrations, deletions of one product)     *)
(* are served in steps, one per store call, and calls records how far      *)
(* each of them is.  env is process.env after dotenv has loaded it.        *)
(***************************************************************************)
EXTENDS Integers, Sequences, FiniteSets, TLC

VARIABLES products, orders, banners, combos, users, now, nextId, req, res,
          calls, env

vars ==
    <<products, orders, banners, combos, users, now, nextId, req, res, calls,
      env>>

(***************************************************************************)
(* Bounds of the exploration.                                              *)
(***************************************************************************)
\* documents ever inserted into the collections in one run
MaxDocs == 2
\* ticks of the millisecond clock behind Date.now
MaxTime == 1
\* requests in flight at the same time
MaxCalls == 2

(***************************************************************************)
(* JavaScript values.  A request body or query is a function from the      *)
(* names it carries to their values: a name outside its DOMAIN is          *)
(* undefined after destructuring.  Text is a TLA+ string, except the       *)
(* numeric text handed to parseFloat, which is a sequence of characters.   *)
(***************************************************************************)
Has(b, f) == f \in DOMAIN b

\* !x for a text field: undefined and "" are falsy
Falsy(b, f) == ~Has(b, f) \/ b[f] = ""

\* !x for a field holding numeric text
FalsyNum(b, f) == ~Has(b, f) \/ b[f] = <<>>

\* the full bodies with any of the optional fields left out
Partial(optional, full) ==
    { [f \in DOMAIN b \ S |-> b[f]] : S \in SUBSET optional, b \in full }

\* a body or query carrying nothing
NoBody == [f \in {} |-> ""]

DigitChars == <<"0", "1", "2", "3", "4", "5", "6", "7", "8", "9">>

IsDigit(c) == \E i \in DOMAIN DigitChars : DigitChars[i] = c

DigitVal(c) == (CHOOSE i \in DOMAIN DigitChars : DigitChars[i] = c) - 1

\* numbers are fixed-point, in hundredths
Scale == 10 * 10

NaN == [nan |-> TRUE, v |-> 0]

Num(n) == [nan |-> FALSE, v |-> n]

RECURSIVE LeadingDigits(_)
LeadingDigits(s) ==
    IF s = <<>> \/ ~IsDigit(Head(s)) THEN <<>>
    ELSE <<Head(s)>> \o LeadingDigits(Tail(s))

RECURSIVE DigitsValue(_)
DigitsValue(ds) ==
    IF ds = <<>> THEN 0
    ELSE 10 * DigitsValue(SubSeq(ds, 1, Len(ds) - 1)) + DigitVal(ds[Len(ds)])

\* the first two fraction digits, as hundredths
FractionValue(ds) ==
    IF Len(ds) = 0 THEN 0
    ELSE IF Len(ds) = 1 THEN 10 * DigitVal(ds[1])
    ELSE 10 * DigitVal(ds[1]) + DigitVal(ds[2])

\* parseFloat: optional sign, digits, optional fraction; the longest such
\* prefix is read and the rest ignored; NaN when no digit is read
parseFloat(s) ==
    LET signed == s # <<>> /\ Head(s) \in {"-", "+"}
        neg    == s # <<>> /\ Head(s) = "-"
        body   == IF signed THEN Tail(s) ELSE s
        int    == LeadingDigits(body)
        rest   == SubSeq(body, Len(int) + 1, Len(body))
        frac   == IF rest # <<>> /\ Head(rest) = "."
                  THEN LeadingDigits(Tail(rest)) ELSE <<>>
        mag    == Scale * DigitsValue(int) + FractionValue(frac)
    IN  IF int = <<>> /\ frac = <<>> THEN NaN
        ELSE Num(IF neg THEN 0 - mag ELSE mag)

(***************************************************************************)
(* Identifiers.  A route's :id is text: either the 24 hex digits of an     *)
(* ObjectId (Oid(n) stands for the n-th id the server hands out) or text   *)
(* that is no ObjectId.                                                    *)
(***************************************************************************)
Oid(n) == [kind |-> "oid", n |-> n]

BadId == [kind |-> "bad", n |-> 0]

NoId == [kind |-> "none", n |-> 0]

\* a format check that lets every id through
isValid_Any(id) == TRUE

\* mongoose.Types.ObjectId.isValid on a route parameter
isValid(id) == id.kind = "oid"

\* the ids requests name: every id that can be stored, one that never is,
\* and one that is malformed
IdParams == { Oid(n) : n \in 1..(MaxDocs + 1) } \cup {BadId}

(***************************************************************************)
(* Responses.                                                              *)
(***************************************************************************)
NoDoc == [none |-> TRUE]

Reply(status, doc, list) == [status |-> status, doc |-> doc, list |-> list]

Request(route, id, body) == [route |-> route, id |-> id, body |-> body]


\* an ascending sort
SortOldestFirst(S) ==
    { s \in [1..Cardinality(S) -> S] :
        /\ \A i, j \in DOMAIN s : i # j => s[i] # s[j]
        /\ \A i, j \in DOMAIN s : i < j => s[i].createdAt <= s[j].createdAt }

\* the orderings .sort({ createdAt: -1 }) may return: newest first, documents
\* of equal createdAt in any order
SortNewestFirst(S) ==
    { s \in [1..Cardinality(S) -> S] :
        /\ \A i, j \in DOMAIN s : i # j => s[i] # s[j]
        /\ \A i, j \in DOMAIN s : i < j => s[i].createdAt >= s[j].createdAt }

\* findById and its relatives: the stored document with this _id, if any
findById(coll, id) == { d \in coll : d._id = id.n }

\* a delete that finds the document and leaves it in the collection
findByIdAndDelete_Keeps(coll, id) == coll

\* the collection after findByIdAndDelete
findByIdAndDelete(coll, id) == coll \ findById(coll, id)


(***************************************************************************)
(* Products.                                                               *)
(***************************************************************************)
\* productSchema: the enum of category
ProductCategories ==
    {"sports", "retro", "home-kit", "player-edition", "football-boots", "none"}

ProductFields ==
    {"name", "model", "price", "description", "discount", "image", "category"}

\* what a required field of a body may be besides a value: missing, or empty
\* ("" for text, <<>> for numeric text)
Without(b, f) == [g \in DOMAIN b \ {f} |-> b[g]]

Emptied(b, f, empty) == [g \in DOMAIN b |-> IF g = f THEN empty ELSE b[g]]

\* bodies of POST /products carrying every required field: the category in
\* or out of the enum, the price "10" or "a", the discount "5" or none
CompleteProductBodies ==
    Partial({"discount"},
            [name : {"A"}, model : {"m"}, price : { <<"1", "0">>, <<"a">> },
             description : {"d"}, discount : { <<"5">> }, image : {"i"},
             category : {"sports", "retro", "bogus"}])

\* the bodies of POST /products: the complete ones, those with one required
\* field missing or empty, and the empty body
ProductBodies ==
    CompleteProductBodies
    \cup { Without(b, f) :
             b \in CompleteProductBodies, f \in ProductFields \ {"discount"} }
    \cup { Emptied(b, f, IF f = "price" THEN <<>> ELSE "") :
             b \in CompleteProductBodies, f \in ProductFields \ {"discount"} }
    \cup {NoBody}

\* the bodies of POST /products creating the products that are then read,
\* updated and deleted
SeedProductBodies ==
    { b \in CompleteProductBodies :
        b.category = "sports" /\ b.price = <<"1", "0">> }

\* the bodies of PUT /api/products/:id: any subset of a new name, a price
\* "10" or "a", a discount "5" and a new category
ProductUpdates ==
    Partial({"name", "price", "discount", "category"},
            [name : {"B"}, price : { <<"1", "0">>, <<"a">> },
             discount : { <<"5">> }, category : {"retro"}])

\* save() validates the new document against productSchema: the required
\* paths are there and not "", a NaN does not cast to Number, and category
\* is in the enum
productSchemaAccepts(body, price, discount) ==
    /\ \A f \in {"name", "model", "image", "description", "category"} :
          ~Falsy(body, f)
    /\ ~price.nan
    /\ ~discount.nan
    /\ body.category \in ProductCategories

\* the handler's own check with the test of category left out
missingProductField_NoCategory(body) ==
    \/ Falsy(body, "name") \/ Falsy(body, "model")
    \/ FalsyNum(body, "price") \/ Falsy(body, "description")
    \/ Falsy(body, "image")

\* !name || !model || !price || !description || !image || !category
missingProductField(body) ==
    \/ Falsy(body, "name") \/ Falsy(body, "model")
    \/ FalsyNum(body, "price") \/ Falsy(body, "description")
    \/ Falsy(body, "image") \/ Falsy(body, "category")

\* a document built with the discount left at the schema's default
newProduct_DiscountDropped(body, price, discount) ==
    [_id |-> nextId, name |-> body.name, model |-> body.model,
     price |-> price.v, discount |-> 0,
     description |-> body.description, image |-> body.image,
     category |-> body.category, createdAt |-> now]

\* the document new Product({...}) builds, before validation
newProduct(body, price, discount) ==
    [_id |-> nextId, name |-> body.name, model |-> body.model,
     price |-> price.v, discount |-> discount.v,
     description |-> body.description, image |-> body.image,
     category |-> body.category, createdAt |-> now]

\* app.post('/products')
PostProducts(body) ==
    /\ req' = Request("POST /products", NoId, body)
    /\ IF missingProductField(body)
       THEN /\ res' = Reply(400, NoDoc, <<>>)
            /\ UNCHANGED <<products, nextId>>
       ELSE LET price    == parseFloat(body.price)
                discount == IF ~FalsyNum(body, "discount")
                            THEN parseFloat(body.discount) ELSE Num(0)
            IN  IF ~productSchemaAccepts(body, price, discount)
                THEN /\ res' = Reply(500, NoDoc, <<>>)
                     /\ UNCHANGED <<products, nextId>>
                ELSE /\ nextId <= MaxDocs
                     /\ products' =
                           products \cup {newProduct(body, price, discount)}
                     /\ nextId' = nextId + 1
                     /\ res' = Reply(201, newProduct(body, price, discount), <<>>)
    /\ UNCHANGED <<orders, banners, combos, now, users, calls, env>>

\* the queries of GET /products
CategoryQueries == Partial({"category"}, [category : {"", "sports", "retro"}])

\* app.get('/products')
GetProducts(query) ==
    LET match == IF ~Falsy(query, "category")
                 THEN { p \in products : p.category = query.category }
                 ELSE products
    IN  /\ req' = Request("GET /products", NoId, query)
        /\ \E s \in SortNewestFirst(match) : res' = Reply(200, NoDoc, s)
        /\ UNCHANGED <<products, orders, banners, combos, now, nextId, users,
                       calls, env>>

\* findById, findByIdAndUpdate and findByIdAndDelete cast the id to an
\* ObjectId first, and throw a CastError when it is none
castsToObjectId(id) == id.kind = "oid"

\* app.get('/products/:id')
GetProductById(id) ==
    /\ req' = Request("GET /products/:id", id, NoBody)
    /\ IF ~isValid(id) THEN res' = Reply(400, NoDoc, <<>>)
       ELSE IF ~castsToObjectId(id) THEN res' = Reply(500, NoDoc, <<>>)
       ELSE IF findById(products, id) = {} THEN res' = Reply(404, NoDoc, <<>>)
       ELSE \E p \in findById(products, id) : res' = Reply(200, p, <<>>)
    /\ UNCHANGED <<products, orders, banners, combos, now, nextId, users,
                   calls, env>>

\* the update PUT /api/products/:id hands to findByIdAndUpdate: mongoose
\* drops the keys whose value is undefined; price and discount are always
\* computed, so they are always there
updatedFields(body) ==
    LET price    == IF Has(body, "price") THEN parseFloat(body.price) ELSE NaN
        discount == IF ~FalsyNum(body, "discount")
                    THEN parseFloat(body.discount) ELSE Num(0)
        text     == {"name", "model", "description", "image", "category"}
    IN  [f \in (DOMAIN body \cap text) \cup {"price", "discount"} |->
            IF f = "price" THEN price
            ELSE IF f = "discount" THEN discount
            ELSE body[f]]

\* casting the update and runValidators: a NaN does not cast to Number, a
\* required path may not be set to "", category must be in the enum
productUpdateAccepts(upd) ==
    /\ ~upd["price"].nan
    /\ ~upd["discount"].nan
    /\ \A f \in DOMAIN upd \cap {"name", "model", "description", "image"} :
          upd[f] # ""
    /\ Has(upd, "category") => upd["category"] \in ProductCategories

\* $set of the update's paths on a stored document
applyProductUpdate(p, upd) ==
    [f \in DOMAIN p |->
        IF f \in {"price", "discount"} THEN upd[f].v
        ELSE IF f \in DOMAIN upd THEN upd[f]
        ELSE p[f]]

\* app.put('/api/products/:id')
PutProduct(id, body) ==
    LET upd == updatedFields(body)
    IN  /\ req' = Request("PUT /api/products/:id", id, body)
        /\ IF ~castsToObjectId(id) \/ ~productUpdateAccepts(upd)
           THEN /\ res' = Reply(500, NoDoc, <<>>)
                /\ UNCHANGED products
           ELSE IF findById(products, id) = {}
           THEN /\ res' = Reply(404, NoDoc, <<>>)
                /\ UNCHANGED products
           ELSE \E p \in findById(products, id) :
                   LET q == applyProductUpdate(p, upd)
                   IN  /\ products' = (products \ {p}) \cup {q}
                       /\ res' = Reply(200, q, <<>>)
        /\ UNCHANGED <<orders, banners, combos, now, nextId, users, calls,
                       env>>

\* a delete that takes the orders of the product with it
DeleteProduct_Cascade(id) ==
    /\ req' = Request("DELETE /api/products/:id", id, NoBody)
    /\ IF ~castsToObjectId(id)
       THEN /\ res' = Reply(500, NoDoc, <<>>)
            /\ UNCHANGED <<products, orders>>
       ELSE IF findById(products, id) = {}
       THEN /\ res' = Reply(404, NoDoc, <<>>)
            /\ UNCHANGED <<products, orders>>
       ELSE \E p \in findById(products, id) :
               /\ products' = findByIdAndDelete(products, id)
               /\ orders' = { o \in orders : o.productId # id.n }
               /\ res' = Reply(200, p, <<>>)
    /\ UNCHANGED <<banners, combos, now, nextId, users, calls, env>>

\* app.delete('/api/products/:id')
DeleteProduct(id) ==
    /\ req' = Request("DELETE /api/products/:id", id, NoBody)
    /\ IF ~castsToObjectId(id)
       THEN /\ res' = Reply(500, NoDoc, <<>>)
            /\ UNCHANGED products
       ELSE IF findById(products, id) = {}
       THEN /\ res' = Reply(404, NoDoc, <<>>)
            /\ UNCHANGED products
       ELSE \E p \in findById(products, id) :
               /\ products' = findByIdAndDelete(products, id)
               /\ res' = Reply(200, p, <<>>)
    /\ UNCHANGED <<orders, banners, combos, now, nextId, users, calls, env>>

\* Date.now moves on between two requests
Tick ==
    /\ now < MaxTime
    /\ now' = now + 1
    /\ UNCHANGED <<products, orders, banners, combos, nextId, req, res,
                   users, calls, env>>

(***************************************************************************)
(* Orders.                                                                 *)
(***************************************************************************)
\* orderSchema: the enum of status
OrderStatuses == {"pending", "processing", "shipped", "delivered", "cancelled"}

\* orderSchema: the enum of orderedBy
OrderChannels == {"website", "bkash"}

\* a nullable string: null, or the string
Null == <<>>

Str(s) == <<s>>

RequiredOfOrder ==
    {"productId", "productName", "quantity", "totalPrice", "buyerName",
     "buyerEmail", "phone", "address"}

OrderTextFields == {"productName", "buyerName", "buyerEmail", "phone", "address"}

\* bodies of POST /order carrying every required field: the productId an
\* ObjectId or not, two buyers, orderedBy absent, in or out of the enum
CompleteOrderBodies ==
    Partial({"orderedBy"},
            [productId : {Oid(1), BadId}, productName : {"A"}, quantity : {2},
             totalPrice : {20}, buyerName : {"n"},
             buyerEmail : {"a@x", "b@x"}, phone : {"p"}, address : {"s"},
             orderedBy : {"bkash", "bogus"}])

\* the bodies of POST /order that place an order
SeedOrderBodies ==
    { b \in CompleteOrderBodies :
        b.productId = Oid(1) /\ (Has(b, "orderedBy") => b.orderedBy = "bkash") }

\* the body of POST /order placing the orders that are then patched
PatchedOrderBodies ==
    { b \in SeedOrderBodies : ~Has(b, "orderedBy") /\ b.buyerEmail = "a@x" }

\* the bodies of POST /order: the complete ones, and the placeable ones with
\* one required field missing, one text empty or the quantity 0
OrderBodies ==
    CompleteOrderBodies
    \cup { Without(b, f) : b \in SeedOrderBodies, f \in RequiredOfOrder }
    \cup { Emptied(b, f, "") : b \in SeedOrderBodies, f \in OrderTextFields }
    \cup { Emptied(b, "quantity", 0) : b \in SeedOrderBodies }

\* !x for a field of POST /order: undefined, "" and 0 are falsy
FalsyOrderField(b, f) ==
    \/ ~Has(b, f)
    \/ f \in OrderTextFields /\ b[f] = ""
    \/ f \in {"quantity", "totalPrice"} /\ b[f] = 0

\* the check of POST /order with the test of buyerEmail left out
missingOrderField_NoEmail(body) ==
    \E f \in RequiredOfOrder \ {"buyerEmail"} : FalsyOrderField(body, f)

\* !productId || !productName || ... || !address
missingOrderField(body) == \E f \in RequiredOfOrder : FalsyOrderField(body, f)

\* save() validates the new document against orderSchema: productId casts to
\* an ObjectId and orderedBy, when given, is in its enum
orderSchemaAccepts(body) ==
    /\ Has(body, "productId") => castsToObjectId(body.productId)
    /\ Has(body, "orderedBy") => body.orderedBy \in OrderChannels

\* orderSchema: the default of status
defaultStatus == "pending"

\* the document new Order({...}) builds: the schema's defaults fill status,
\* transactionId and an absent orderedBy; timestamps sets both dates.  The
\* text fields a body lacks are absent from the document ("" stands for it)
newOrder(body) ==
    LET text(f) == IF Has(body, f) THEN body[f] ELSE ""
        num(f)  == IF Has(body, f) THEN body[f] ELSE 0
    IN  [_id |-> nextId,
         productId |-> IF Has(body, "productId") THEN body.productId.n ELSE 0,
         productName |-> text("productName"), quantity |-> num("quantity"),
         totalPrice |-> num("totalPrice"), buyerName |-> text("buyerName"),
         buyerEmail |-> text("buyerEmail"), phone |-> text("phone"),
         address |-> text("address"), status |-> defaultStatus,
         transactionId |-> Null,
         orderedBy |-> IF Has(body, "orderedBy") THEN body.orderedBy
                       ELSE "website",
         createdAt |-> now, updatedAt |-> now]

\* app.post('/order')
PostOrder(body) ==
    /\ req' = Request("POST /order", NoId, body)
    /\ IF missingOrderField(body)
       THEN /\ res' = Reply(400, NoDoc, <<>>)
            /\ UNCHANGED <<orders, nextId>>
       ELSE IF ~orderSchemaAccepts(body)
       THEN /\ res' = Reply(500, NoDoc, <<>>)
            /\ UNCHANGED <<orders, nextId>>
       ELSE /\ nextId <= MaxDocs
            /\ orders' = orders \cup {newOrder(body)}
            /\ nextId' = nextId + 1
            /\ res' = Reply(201, newOrder(body), <<>>)
    /\ UNCHANGED <<products, banners, combos, now, users, calls, env>>

\* app.get('/orders')
GetOrders ==
    /\ req' = Request("GET /orders", NoId, NoBody)
    /\ \E s \in SortNewestFirst(orders) : res' = Reply(200, NoDoc, s)
    /\ UNCHANGED <<products, orders, banners, combos, now, nextId, users,
                   calls, env>>

\* the queries of GET /my-orders: no email, an empty one, a buyer's, a
\* buyer's in other case, a stranger's
EmailQueries ==
    Partial({"email"}, [email : {"", "a@x", "A@x", "b@x", "c@x"}])

\* a filter that lets every order through
findByBuyerEmail_All(email) == orders

\* Order.find({ buyerEmail: email })
findByBuyerEmail(email) == { o \in orders : o.buyerEmail = email }

\* app.get('/my-orders')
GetMyOrders(query) ==
    /\ req' = Request("GET /my-orders", NoId, query)
    /\ IF Falsy(query, "email") THEN res' = Reply(400, NoDoc, <<>>)
       ELSE IF findByBuyerEmail(query.email) = {}
       THEN res' = Reply(404, NoDoc, <<>>)
       ELSE \E s \in SortNewestFirst(findByBuyerEmail(query.email)) :
               res' = Reply(200, NoDoc, s)
    /\ UNCHANGED <<products, orders, banners, combos, now, nextId, users,
                   calls, env>>

\* the bodies of PATCH /orders/:id: any subset of a status (of the enum, or
\* not) and a transaction id
OrderPatches ==
    Partial({"status", "transactionId"},
            [status : OrderStatuses \cup {"bogus"}, transactionId : {"t1"}])

\* an update that resets the transaction id the request does not carry
updateFields_ResetsTransaction(body) ==
    [f \in {"transactionId"} \cup { g \in {"status"} : ~Falsy(body, g) } |->
        IF f = "status" THEN body[f]
        ELSE IF ~Falsy(body, f) THEN Str(body[f]) ELSE Null]

\* if (status) updateFields.status = status;
\* if (transactionId) updateFields.transactionId = transactionId;
updateFields(body) ==
    [f \in { g \in {"status", "transactionId"} : ~Falsy(body, g) } |->
        IF f = "status" THEN body[f] ELSE Str(body[f])]

\* $set of the update's paths on a stored order; timestamps sets updatedAt.
\* No validator runs: the update is applied as it is
applyOrderUpdate(o, upd) ==
    [f \in DOMAIN o |->
        IF f = "updatedAt" THEN now
        ELSE IF f \in DOMAIN upd THEN upd[f]
        ELSE o[f]]

\* app.patch('/orders/:id'): the answer is 200 with the updated order, or
\* with null when the id names none
PatchOrder(id, body) ==
    /\ req' = Request("PATCH /orders/:id", id, body)
    /\ IF ~castsToObjectId(id)
       THEN /\ res' = Reply(500, NoDoc, <<>>)
            /\ UNCHANGED orders
       ELSE IF findById(orders, id) = {}
       THEN /\ res' = Reply(200, NoDoc, <<>>)
            /\ UNCHANGED orders
       ELSE \E o \in findById(orders, id) :
               LET q == applyOrderUpdate(o, updateFields(body))
               IN  /\ orders' = (orders \ {o}) \cup {q}
                   /\ res' = Reply(200, q, <<>>)
    /\ UNCHANGED <<products, banners, combos, now, nextId, users, calls, env>>

(***************************************************************************)
(* Banners.                                                                *)
(***************************************************************************)
\* the bodies of POST /banner and PUT /banner/:id
BannerBodies ==
    Partial({"image", "caption"},
            [image : {"", "i1", "i2"}, caption : {"", "c1"}])

\* save() validates the new document against bannerSchema: image and
\* caption are required
bannerSchemaAccepts(body) == ~Falsy(body, "image") /\ ~Falsy(body, "caption")

\* app.post('/banner'): no check of its own; a document the schema rejects
\* makes save() throw
PostBanner(body) ==
    /\ req' = Request("POST /banner", NoId, body)
    /\ IF ~bannerSchemaAccepts(body)
       THEN /\ res' = Reply(500, NoDoc, <<>>)
            /\ UNCHANGED <<banners, nextId>>
       ELSE /\ nextId <= MaxDocs
            /\ banners' = banners \cup
                  {[_id |-> nextId, image |-> body.image,
                    caption |-> body.caption]}
            /\ nextId' = nextId + 1
            /\ res' = Reply(201, NoDoc, <<>>)
    /\ UNCHANGED <<products, orders, combos, now, users, calls, env>>

\* app.delete('/banner/:id'): the result of findByIdAndDelete is not looked at
DeleteBanner(id) ==
    /\ req' = Request("DELETE /banner/:id", id, NoBody)
    /\ IF ~castsToObjectId(id)
       THEN /\ res' = Reply(500, NoDoc, <<>>)
            /\ UNCHANGED banners
       ELSE /\ banners' = findByIdAndDelete(banners, id)
            /\ res' = Reply(200, NoDoc, <<>>)
    /\ UNCHANGED <<products, orders, combos, now, nextId, users, calls, env>>

\* $set of { image, caption } without the undefined ones; no validator runs
applyBannerUpdate(b, body) ==
    [f \in DOMAIN b |->
        IF f \in DOMAIN body \cap {"image", "caption"} THEN body[f] ELSE b[f]]

\* app.put('/banner/:id'): answers res.json(updated), null when the id names
\* no banner
PutBanner(id, body) ==
    /\ req' = Request("PUT /banner/:id", id, body)
    /\ IF ~castsToObjectId(id)
       THEN /\ res' = Reply(500, NoDoc, <<>>)
            /\ UNCHANGED banners
       ELSE IF findById(banners, id) = {}
       THEN /\ res' = Reply(200, NoDoc, <<>>)
            /\ UNCHANGED banners
       ELSE \E b \in findById(banners, id) :
               LET q == applyBannerUpdate(b, body)
               IN  /\ banners' = (banners \ {b}) \cup {q}
                   /\ res' = Reply(200, q, <<>>)
    /\ UNCHANGED <<products, orders, combos, now, nextId, users, calls, env>>

(***************************************************************************)
(* Combo products.                                                         *)
(***************************************************************************)
RequiredOfCombo == {"name", "model", "price", "description", "images"}

\* the bodies of POST /combo: every field but discount, or one of them
\* missing; images is an array of URLs, possibly empty
ComboBodies ==
    LET complete == [name : {"A"}, model : {"m"}, price : {10},
                     description : {"d"},
                     images : { <<>>, <<"u1">>, <<"u1", "u2">> }]
    IN  complete \cup { Without(b, f) : b \in complete, f \in RequiredOfCombo }

\* !name || !model || !price || !description || !images || images.length === 0
missingComboField(body) ==
    \/ Falsy(body, "name") \/ Falsy(body, "model")
    \/ ~Has(body, "price") \/ body.price = 0
    \/ Falsy(body, "description")
    \/ ~Has(body, "images") \/ Len(body.images) = 0

\* app.post('/combo')
PostCombo(body) ==
    /\ req' = Request("POST /combo", NoId, body)
    /\ IF missingComboField(body)
       THEN /\ res' = Reply(400, NoDoc, <<>>)
            /\ UNCHANGED <<combos, nextId>>
       ELSE LET doc == [_id |-> nextId, name |-> body.name,
                        model |-> body.model, price |-> body.price,
                        discount |-> 0, description |-> body.description,
                        images |-> body.images, createdAt |-> now]
            IN  /\ nextId <= MaxDocs
                /\ combos' = combos \cup {doc}
                /\ nextId' = nextId + 1
                /\ res' = Reply(201, doc, <<>>)
    /\ UNCHANGED <<products, orders, banners, now, users, calls, env>>

\* the bodies of PUT /combo/:id: any subset of a new name and new images
ComboUpdates ==
    Partial({"name", "images"}, [name : {"B"}, images : { <<>>, <<"u2">> }])

\* $set of the whole body; no validator runs
applyComboUpdate(c, body) ==
    [f \in DOMAIN c |-> IF f \in DOMAIN body THEN body[f] ELSE c[f]]

\* app.put('/combo/:id')
PutCombo(id, body) ==
    /\ req' = Request("PUT /combo/:id", id, body)
    /\ IF ~castsToObjectId(id)
       THEN /\ res' = Reply(500, NoDoc, <<>>)
            /\ UNCHANGED combos
       ELSE IF findById(combos, id) = {}
       THEN /\ res' = Reply(404, NoDoc, <<>>)
            /\ UNCHANGED combos
       ELSE \E c \in findById(combos, id) :
               LET q == applyComboUpdate(c, body)
               IN  /\ combos' = (combos \ {c}) \cup {q}
                   /\ res' = Reply(200, q, <<>>)
    /\ UNCHANGED <<products, orders, banners, now, nextId, users, calls, env>>

\* app.delete('/combo/:id')
DeleteCombo(id) ==
    /\ req' = Request("DELETE /combo/:id", id, NoBody)
    /\ IF ~castsToObjectId(id)
       THEN /\ res' = Reply(500, NoDoc, <<>>)
            /\ UNCHANGED combos
       ELSE IF findById(combos, id) = {}
       THEN /\ res' = Reply(404, NoDoc, <<>>)
            /\ UNCHANGED combos
       ELSE /\ combos' = findByIdAndDelete(combos, id)
            /\ res' = Reply(200, NoDoc, <<>>)
    /\ UNCHANGED <<products, orders, banners, now, nextId, users, calls, env>>

(***************************************************************************)
(* Search.  The text of a query and of a product's name and model is read  *)
(* character by character: At(s, i) is the i-th character of s.            *)
(***************************************************************************)
At(s, i) == SubSeq(s, i, i)

From(s, i) == SubSeq(s, i, Len(s))

\* the white space String.prototype.trim strips, as far as the queries
\* carry it
IsWhiteSpace(c) == c = " "

RECURSIVE trimStart(_)
trimStart(s) ==
    IF s # "" /\ IsWhiteSpace(At(s, 1)) THEN trimStart(From(s, 2)) ELSE s

RECURSIVE trimEnd(_)
trimEnd(s) ==
    IF s # "" /\ IsWhiteSpace(At(s, Len(s)))
    THEN trimEnd(SubSeq(s, 1, Len(s) - 1)) ELSE s

\* q.trim()
trim(s) == trimEnd(trimStart(s))

\* the character class of the handler's escape: [.*+?^${}()|[\]\\]
RegexSpecials ==
    {".", "*", "+", "?", "^", "$", "{", "}", "(", ")", "|", "[", "]", "\\"}

\* an escape whose class leaves the plus sign out
escapeChar_PlusBare(c) ==
    IF c \in RegexSpecials \ {"+"} THEN "\\" \o c ELSE c

\* the replacement '\\$&' of one character the class matches
escapeChar(c) == IF c \in RegexSpecials THEN "\\" \o c ELSE c

\* q.replace(/[.*+?^${}()|[\]\\]/g, '\\$&')
RECURSIVE escapeRegex(_)
escapeRegex(s) ==
    IF s = "" THEN "" ELSE escapeChar(At(s, 1)) \o escapeRegex(From(s, 2))

\* a compiled pattern is a sequence of atoms: one given character or any
\* character, once or one or more times
Literal(c) == [any |-> FALSE, ch |-> c, many |-> FALSE]

AnyChar == [any |-> TRUE, ch |-> ".", many |-> FALSE]

SyntaxError == [ok |-> FALSE, atoms |-> <<>>]

\* new RegExp(pattern, 'i') reading the pattern from the left: a backslash
\* makes the next character a literal, a dot is any character, a plus
\* repeats the atom before it and is a SyntaxError ("nothing to repeat")
\* without one; every other character the queries carry stands for itself
RECURSIVE parsePattern(_, _)
parsePattern(p, atoms) ==
    IF p = "" THEN [ok |-> TRUE, atoms |-> atoms]
    ELSE LET c == At(p, 1)
         IN  IF c = "\\"
             THEN IF Len(p) = 1 THEN SyntaxError
                  ELSE parsePattern(From(p, 3), Append(atoms, Literal(At(p, 2))))
             ELSE IF c = "."
             THEN parsePattern(From(p, 2), Append(atoms, AnyChar))
             ELSE IF c = "+"
             THEN IF atoms = <<>> \/ atoms[Len(atoms)].many THEN SyntaxError
                  ELSE parsePattern(From(p, 2),
                                    [atoms EXCEPT ![Len(atoms)].many = TRUE])
             ELSE parsePattern(From(p, 2), Append(atoms, Literal(c)))

RegExp(pattern) == parsePattern(pattern, <<>>)

UpperCase == "ABCDEFGHIJKLMNOPQRSTUVWXYZ"

LowerCase == "abcdefghijklmnopqrstuvwxyz"

\* the case folding of the 'i' flag on one character
toLowerCase(c) ==
    IF \E i \in 1..Len(UpperCase) : At(UpperCase, i) = c
    THEN At(LowerCase, CHOOSE i \in 1..Len(UpperCase) : At(UpperCase, i) = c)
    ELSE c

atomMatches(a, c) ==
    IF a.any THEN c # "\n" ELSE toLowerCase(a.ch) = toLowerCase(c)

\* the atoms from the k-th on match the text from its i-th character on
RECURSIVE matchesAt(_, _, _, _)
matchesAt(atoms, k, text, i) ==
    IF k > Len(atoms) THEN TRUE
    ELSE IF i > Len(text) \/ ~atomMatches(atoms[k], At(text, i)) THEN FALSE
    ELSE \/ matchesAt(atoms, k + 1, text, i + 1)
         \/ atoms[k].many /\ matchesAt(atoms, k, text, i + 1)

\* { field: regex }: the pattern matches somewhere in the text
regexMatches(regex, text) ==
    \E i \in 1..(Len(text) + 1) : matchesAt(regex.atoms, 1, text, i)

\* bodies of POST /products creating the products that are searched
SearchedProductBodies ==
    { [name |-> n[1], model |-> n[2], price |-> <<"1", "0">>,
       description |-> "d", image |-> "i", category |-> "sports"] :
        n \in { <<"aAb", "m1">>, <<"a+b", "M2">>, <<"a.b", "m+">> } }

\* the queries of GET /search: no q, an empty one, white space, letters in
\* either case, and characters a regular expression gives a meaning to
SearchQueries ==
    Partial({"q"},
            [q : {"", " ", "  ", "a", "A", "a+", "a.", "+", "m", "(", "\\"}])

\* app.get('/search')
GetSearch(query) ==
    /\ req' = Request("GET /search", NoId, query)
    /\ IF Falsy(query, "q") \/ trim(query.q) = ""
       THEN res' = Reply(400, NoDoc, <<>>)
       ELSE LET regex == RegExp(escapeRegex(query.q))
                found == { p \in products :
                             \/ regexMatches(regex, p.name)
                             \/ regexMatches(regex, p.model) }
            IN  IF ~regex.ok THEN res' = Reply(500, NoDoc, <<>>)
                ELSE \E s \in SortNewestFirst(found) :
                        res' = Reply(200, NoDoc, s)
    /\ UNCHANGED <<products, orders, banners, combos, now, nextId, users,
                   calls, env>>

(***************************************************************************)
(* The admin login.                                                        *)
(***************************************************************************)
\* process.env as the service reads it with both admin credentials set
ConfiguredEnv == [ADMIN_USERNAME |-> "admin", ADMIN_PASSWORD |-> "secret"]

\* process.env after require('dotenv').config(): either credential is there
\* or the environment does not define it
AdminEnvs ==
    Partial({"ADMIN_USERNAME", "ADMIN_PASSWORD"},
            [ADMIN_USERNAME : {"admin"}, ADMIN_PASSWORD : {"secret"}])

\* the bodies of POST /admin: each credential right, wrong, empty or absent
AdminBodies ==
    Partial({"username", "password"},
            [username : {"admin", "Admin", ""},
             password : {"secret", "guess", ""}])

\* b.f === e.g, either side of which may be undefined
StrictEquals(b, f, e, g) ==
    IF Has(b, f) /\ Has(e, g) THEN b[f] = e[g] ELSE ~Has(b, f) /\ ~Has(e, g)

\* app.post("/admin")
PostAdmin(body) ==
    /\ req' = Request("POST /admin", NoId, body)
    /\ IF /\ StrictEquals(body, "username", env, "ADMIN_USERNAME")
          /\ StrictEquals(body, "password", env, "ADMIN_PASSWORD")
       THEN res' = Reply(200, [success |-> TRUE], <<>>)
       ELSE res' = Reply(401, NoDoc, <<>>)
    /\ UNCHANGED <<products, orders, banners, combos, now, nextId, users,
                   calls, env>>

(***************************************************************************)
(* Requests in flight.  A handler that awaits the store gives way to the   *)
(* other requests at each await; calls[c] is the c-th such request: its    *)
(* route, id and body, the store call it waits for (pc), what that call    *)
(* found, and the status it answered with.  stored records whether the id  *)
(* named a stored document when the request came in.                       *)
(***************************************************************************)
Calls == 1..MaxCalls

Call(route, id, body, pc, stored, doc, status) ==
    [route |-> route, id |-> id, body |-> body, pc |-> pc,
     stored |-> stored, doc |-> doc, status |-> status]

Idle == Call("none", NoId, NoBody, "idle", FALSE, NoDoc, 0)

(***************************************************************************)
(* Prices.                                                                 *)
(***************************************************************************)
\* the price texts clients submit: fractional, signed, a number followed by
\* something else, and not a number
PriceTexts == { <<"1", ".", "5">>, <<"-", "5">>, <<"7", "x">>, <<"a">> }

\* the discount texts: a number, a signed one, and not a number
DiscountTexts == { <<"5">>, <<"-", "1">>, <<"x">> }

\* bodies of POST /products carrying every required field: those prices
\* with those discounts or none, and one with a category outside the enum
PricedProductBodies ==
    LET priced == Partial({"discount"},
                     [name : {"A"}, model : {"m"}, price : PriceTexts,
                      description : {"d"}, discount : DiscountTexts,
                      image : {"i"}, category : {"sports"}])
    IN  priced
        \cup { Emptied(b, "category", "bogus") :
                 b \in { c \in priced : c.price = <<"1", ".", "5">> } }

\* bodies of PUT /api/products/:id setting a new price
PriceUpdates == [price : { <<"1", "0">>, <<"-", "5">> }]

(***************************************************************************)
(* Users.  POST /api/auth/register awaits the store twice, for findOne     *)
(* and for save, and other requests are served in between.                 *)
(***************************************************************************)
RequiredOfUser == {"name", "photo", "phone", "email", "password"}

\* userSchema: the enum of role
UserRoles == {"user", "admin"}

\* the bodies of POST /api/auth/register: complete ones for two emails, one
\* with a role outside the enum, one without an email
RegisterBodies ==
    LET complete == [name : {"N"}, photo : {"p"}, phone : {"1"},
                     email : {"a@x", "b@x"}, password : {"pw"}]
    IN  complete
        \cup { [f \in DOMAIN b \cup {"role"} |->
                  IF f = "role" THEN "bogus" ELSE b[f]] :
                 b \in { c \in complete : c.email = "a@x" } }
        \cup { Without(b, "email") : b \in { c \in complete : c.email = "a@x" } }

\* !name || !photo || !phone || !email || !password
missingUserField(body) == \E f \in RequiredOfUser : Falsy(body, f)

\* new User({ ..., role: role || 'user' })
newUser(body) ==
    [_id |-> nextId, name |-> body.name, photo |-> body.photo,
     phone |-> body.phone, email |-> body.email, password |-> body.password,
     role |-> IF Falsy(body, "role") THEN "user" ELSE body.role,
     createdAt |-> now]

\* save() validates the document against userSchema
userSchemaAccepts(doc) == doc.role \in UserRoles

\* a users collection without the index on email
uniqueIndexAdmits_Any(email) == TRUE

\* email: { unique: true }: the index admits an insert only when no stored
\* user has the email
uniqueIndexAdmits(email) == \A u \in users : u.email # email

\* the request comes in and is validated; User.findOne is issued
RegisterArrive(c, body) ==
    /\ calls[c].pc = "idle"
    /\ calls' = [calls EXCEPT ![c] =
          IF missingUserField(body)
          THEN Call("POST /api/auth/register", NoId, body, "done", FALSE,
                    NoDoc, 400)
          ELSE Call("POST /api/auth/register", NoId, body, "findOne", FALSE,
                    NoDoc, 0)]
    /\ UNCHANGED <<products, orders, banners, combos, users, now, nextId, req,
                   res, env>>

\* User.findOne({ email }) is served and the handler goes on: 400 when a
\* user has the email, and otherwise save() is issued
RegisterFindOne(c) ==
    /\ calls[c].route = "POST /api/auth/register"
    /\ calls[c].pc = "findOne"
    /\ LET existingUser == { u \in users : u.email = calls[c].body.email }
       IN  calls' = [calls EXCEPT ![c] =
              IF existingUser # {}
              THEN [@ EXCEPT !.pc = "done", !.status = 400]
              ELSE [@ EXCEPT !.pc = "save"]]
    /\ UNCHANGED <<products, orders, banners, combos, users, now, nextId, req,
                   res, env>>

\* newUser.save() is served and the handler answers: 201 with the stored
\* user, or 500 when validation or the index on email refuses it
RegisterSave(c) ==
    /\ calls[c].route = "POST /api/auth/register"
    /\ calls[c].pc = "save"
    /\ LET doc == newUser(calls[c].body)
       IN  IF ~userSchemaAccepts(doc) \/ ~uniqueIndexAdmits(doc.email)
           THEN /\ calls' = [calls EXCEPT ![c] =
                      [@ EXCEPT !.pc = "done", !.status = 500]]
                /\ UNCHANGED <<users, nextId>>
           ELSE /\ nextId <= MaxDocs
                /\ users' = users \cup {doc}
                /\ nextId' = nextId + 1
                /\ calls' = [calls EXCEPT ![c] =
                      [@ EXCEPT !.pc = "done", !.doc = doc, !.status = 201]]
    /\ UNCHANGED <<products, orders, banners, combos, now, req, res, env>>

(***************************************************************************)
(* Deletions served at the same time.  DELETE /api/products/:id awaits     *)
(* the store once: the request comes in and issues findByIdAndDelete, the  *)
(* store serves it as one atomic operation on the document, and the        *)
(* handler goes on to answer.                                              *)
(***************************************************************************)
\* the request comes in and Product.findByIdAndDelete(req.params.id) is
\* issued
DeleteArrive(c, id) ==
    /\ calls[c].pc = "idle"
    /\ calls' = [calls EXCEPT ![c] =
          Call("DELETE /api/products/:id", id, NoBody, "findByIdAndDelete",
               findById(products, id) # {}, NoDoc, 0)]
    /\ UNCHANGED <<products, orders, banners, combos, users, now, nextId, req,
                   res, env>>

\* a store that hands the document out and leaves it in the collection
DeleteFind_ReadOnly(c) ==
    /\ calls[c].pc = "findByIdAndDelete"
    /\ castsToObjectId(calls[c].id)
    /\ \/ /\ findById(products, calls[c].id) = {}
          /\ calls' = [calls EXCEPT ![c] = [@ EXCEPT !.pc = "reply"]]
       \/ \E p \in findById(products, calls[c].id) :
             calls' = [calls EXCEPT ![c] = [@ EXCEPT !.pc = "reply", !.doc = p]]
    /\ UNCHANGED <<products, orders, banners, combos, users, now, nextId, req,
                   res, env>>

\* the store serves findByIdAndDelete: it throws on an id that is no
\* ObjectId, and otherwise finds the document and removes it in one step,
\* or finds none
DeleteFind(c) ==
    /\ calls[c].pc = "findByIdAndDelete"
    /\ IF ~castsToObjectId(calls[c].id)
       THEN /\ calls' = [calls EXCEPT ![c] = [@ EXCEPT !.pc = "catch"]]
            /\ UNCHANGED products
       ELSE IF findById(products, calls[c].id) = {}
       THEN /\ calls' = [calls EXCEPT ![c] = [@ EXCEPT !.pc = "reply"]]
            /\ UNCHANGED products
       ELSE \E p \in findById(products, calls[c].id) :
               /\ products' = findByIdAndDelete(products, calls[c].id)
               /\ calls' = [calls EXCEPT ![c] =
                     [@ EXCEPT !.pc = "reply", !.doc = p]]
    /\ UNCHANGED <<orders, banners, combos, users, now, nextId, req, res, env>>

\* the handler answers: 500 from the catch, 404 when !deletedProduct, and
\* otherwise 200 with the deleted product
DeleteReply(c) ==
    /\ calls[c].pc \in {"reply", "catch"}
    /\ calls[c].route = "DELETE /api/products/:id"
    /\ calls' = [calls EXCEPT ![c] =
          [@ EXCEPT !.pc = "done",
                    !.status = IF calls[c].pc = "catch" THEN 500
                               ELSE IF calls[c].doc = NoDoc THEN 404
                               ELSE 200]]
    /\ UNCHANGED <<products, orders, banners, combos, users, now, nextId, req,
                   res, env>>

(***************************************************************************)
(* The service after start-up: empty collections, nothing served yet.      *)
(***************************************************************************)
Init ==
    /\ products = {}
    /\ orders = {}
    /\ banners = {}
    /\ combos = {}
    /\ users = {}
    /\ now = 0
    /\ nextId = 1
    /\ req = Request("none", NoId, NoBody)
    /\ res = Reply(0, NoDoc, <<>>)
    /\ calls = [c \in Calls |-> Idle]
    /\ env = ConfiguredEnv

\* creating and listing products
NextCatalog ==
    \/ \E body \in ProductBodies : PostProducts(body)
    \/ \E query \in CategoryQueries : GetProducts(query)
    \/ \E id \in IdParams : DeleteProduct(id)
    \/ Tick

SpecCatalog == Init /\ [][NextCatalog]_vars

\* reading, updating and deleting the products created; their creation
\* times play no part, so the clock stands still
NextProduct ==
    \/ \E body \in SeedProductBodies : PostProducts(body)
    \/ \E id \in IdParams : GetProductById(id)
    \/ \E id \in IdParams, body \in ProductUpdates : PutProduct(id, body)
    \/ \E id \in IdParams : DeleteProduct(id)

SpecProduct == Init /\ [][NextProduct]_vars

\* placing and listing orders
NextOrder ==
    \/ \E body \in OrderBodies : PostOrder(body)
    \/ GetOrders
    \/ \E query \in EmailQueries : GetMyOrders(query)
    \/ Tick

SpecOrder == Init /\ [][NextOrder]_vars

\* patching the orders a website buyer placed, the clock standing still
NextPatch ==
    \/ \E body \in PatchedOrderBodies : PostOrder(body)
    \/ \E id \in IdParams, body \in OrderPatches : PatchOrder(id, body)

SpecPatch == Init /\ [][NextPatch]_vars

\* the banner and combo routes
NextBanner ==
    \/ \E body \in BannerBodies : PostBanner(body)
    \/ \E id \in IdParams, body \in BannerBodies : PutBanner(id, body)
    \/ \E id \in IdParams : DeleteBanner(id)
    \/ \E body \in ComboBodies : PostCombo(body)
    \/ \E id \in IdParams, body \in ComboUpdates : PutCombo(id, body)
    \/ \E id \in IdParams : DeleteCombo(id)

SpecBanner == Init /\ [][NextBanner]_vars

\* creating products and searching them
NextSearch ==
    \/ \E body \in SearchedProductBodies : PostProducts(body)
    \/ \E query \in SearchQueries : GetSearch(query)
    \/ Tick

SpecSearch == Init /\ [][NextSearch]_vars

\* pricing products when they are created and updated
NextPricing ==
    \/ \E body \in PricedProductBodies : PostProducts(body)
    \/ \E id \in IdParams, body \in PriceUpdates : PutProduct(id, body)

SpecPricing == Init /\ [][NextPricing]_vars

\* registrations served at the same time
NextRegister ==
    \/ \E c \in Calls, body \in RegisterBodies : RegisterArrive(c, body)
    \/ \E c \in Calls : RegisterFindOne(c)
    \/ \E c \in Calls : RegisterSave(c)

SpecRegister == Init /\ [][NextRegister]_vars

\* the service started with or without the admin credentials in its
\* environment
InitAdmin ==
    /\ products = {}
    /\ orders = {}
    /\ banners = {}
    /\ combos = {}
    /\ users = {}
    /\ now = 0
    /\ nextId = 1
    /\ req = Request("none", NoId, NoBody)
    /\ res = Reply(0, NoDoc, <<>>)
    /\ calls = [c \in Calls |-> Idle]
    /\ env \in AdminEnvs

\* logging in as admin while banners are added
NextAdmin ==
    \/ \E body \in AdminBodies : PostAdmin(body)
    \/ \E body \in BannerBodies : PostBanner(body)

SpecAdmin == InitAdmin /\ [][NextAdmin]_vars

\* updating and deleting products that orders were placed for
NextCascade ==
    \/ \E body \in SeedProductBodies : PostProducts(body)
    \/ \E body \in PatchedOrderBodies : PostOrder(body)
    \/ \E id \in IdParams, body \in PriceUpdates : PutProduct(id, body)
    \/ \E id \in IdParams : DeleteProduct(id)

SpecCascade == Init /\ [][NextCascade]_vars

\* deleting the products created, several requests at a time
NextRace ==
    \/ \E body \in SeedProductBodies : PostProducts(body)
    \/ \E c \in Calls, id \in IdParams : DeleteArrive(c, id)
    \/ \E c \in Calls : DeleteFind(c)
    \/ \E c \in Calls : DeleteReply(c)

SpecRace == Init /\ [][NextRace]_vars

(***************************************************************************)
(* The claims.  A step serves a request of a route when it leaves that     *)
(* request in req; the step of the clock serves none.                      *)
(***************************************************************************)
Served(route) == req'.route = route /\ now' = now

\* the stored documents a well-formed id names
Stored(coll, id) == { d \in coll : id.kind = "oid" /\ d._id = id.n }

RequiredOfProduct ==
    {"name", "model", "price", "description", "image", "category"}

MissingOrEmpty(b, f) ==
    f \notin DOMAIN b \/ b[f] = (IF f = "price" THEN <<>> ELSE "")

\* C1: POST /products with one of name, model, price, description, image or
\* category missing or empty answers 400 and leaves the stored products as
\* they were.
C1_MissingFieldRejected ==
    [][ (/\ Served("POST /products")
         /\ \E f \in RequiredOfProduct : MissingOrEmpty(req'.body, f))
        => (res'.status = 400 /\ products' = products) ]_vars

\* C1 happens: a body lacking only its category was answered 400 while a
\* product was stored.
C1_Witness ==
    /\ req.route = "POST /products"
    /\ DOMAIN req.body = ProductFields \ {"category"}
    /\ \A f \in RequiredOfProduct \ {"category"} : ~MissingOrEmpty(req.body, f)
    /\ res.status = 400
    /\ products # {}

\* C2: GET /products/:id answers 400 to a malformed id, 404 to a well-formed
\* id that names no stored product and 200 with the product to one that
\* does; it never answers 500 and never changes the store.
C2_GetProductById ==
    [][ Served("GET /products/:id")
        => LET id == req'.id
           IN  /\ products' = products
               /\ res'.status # 500
               /\ id.kind # "oid" => res'.status = 400
               /\ (id.kind = "oid" /\ Stored(products, id) = {})
                     => res'.status = 404
               /\ Stored(products, id) # {}
                     => (res'.status = 200 /\ res'.doc \in Stored(products, id))
      ]_vars

\* C2 happens: a malformed id was answered 400 while products were stored.
C2_Witness ==
    /\ req.route = "GET /products/:id"
    /\ req.id = BadId
    /\ res.status = 400
    /\ products # {}

\* C3: DELETE /api/products/:id of a stored id answers 200 with the deleted
\* product, removes it and leaves the other products alone; the same DELETE
\* served next answers 404; and an id once absent stays absent until a
\* create.
C3_DeleteTwice ==
    [][ /\ (Served("DELETE /api/products/:id") /\ Stored(products, req'.id) # {})
           => /\ res'.status = 200
              /\ res'.doc \in Stored(products, req'.id)
              /\ products' = products \ Stored(products, req'.id)
        /\ (/\ req.route = "DELETE /api/products/:id" /\ res.status = 200
            /\ Served("DELETE /api/products/:id") /\ req'.id = req.id)
           => (res'.status = 404 /\ products' = products)
        /\ \A p \in products' :
              (\A q \in products : q._id # p._id)
                 => req'.route = "POST /products"
      ]_vars

\* C3 happens: the second DELETE of an id was answered 404 and another
\* product is still stored.
C3_Witness ==
    /\ req.route = "DELETE /api/products/:id"
    /\ res.status = 404
    /\ req.id.kind = "oid"
    /\ req.id.n < nextId
    /\ products # {}

\* C4: PUT /api/products/:id with a body carrying only some fields (each of
\* them valid) answers 200 for a stored id, sets the fields the body carries
\* and leaves every field the body lacks, price and discount included, at
\* its stored value; for an id that is well-formed and not stored it answers
\* 404.
C4_PartialReplace ==
    [][ (/\ Served("PUT /api/products/:id")
         /\ req'.id.kind = "oid"
         /\ Has(req'.body, "price") => req'.body.price = <<"1", "0">>)
        => IF Stored(products, req'.id) = {}
           THEN res'.status = 404 /\ products' = products
           ELSE \E p \in Stored(products, req'.id) :
                  /\ res'.status = 200
                  /\ res'.doc \in products'
                  /\ products' \ {res'.doc} = products \ {p}
                  /\ \A f \in DOMAIN p :
                        IF f \in DOMAIN req'.body
                        THEN f \in {"name", "category"}
                                => res'.doc[f] = req'.body[f]
                        ELSE res'.doc[f] = p[f]
      ]_vars

\* C5: after any POST /order and PATCH /orders/:id requests, the status of
\* every stored order is one of pending, processing, shipped, delivered,
\* cancelled.
C5_StatusInEnum == \A o \in orders : o.status \in OrderStatuses

\* the fields of an order a patch has no business with
OrderFrame ==
    {"_id", "productId", "productName", "quantity", "totalPrice", "buyerName",
     "buyerEmail", "phone", "address", "orderedBy", "createdAt"}

\* C6: PATCH /orders/:id changes the status of the order only if the body
\* carries a status and its transactionId only if the body carries one; it
\* changes none of productId, productName, quantity, totalPrice, the buyer
\* fields, address, orderedBy, and no other order; and whatever the current
\* status, a status of the enum carried by the body becomes the status.
C6_PatchFrame ==
    [][ Served("PATCH /orders/:id")
        => LET body == req'.body
           IN  /\ \A o \in orders \ Stored(orders, req'.id) : o \in orders'
               /\ { o._id : o \in orders' } = { o._id : o \in orders }
               /\ \A o \in Stored(orders, req'.id) :
                    \E q \in orders' :
                       /\ \A f \in OrderFrame : q[f] = o[f]
                       /\ q.status # o.status => "status" \in DOMAIN body
                       /\ q.transactionId # o.transactionId
                             => "transactionId" \in DOMAIN body
                       /\ ("status" \in DOMAIN body
                              /\ body.status \in OrderStatuses)
                             => q.status = body.status
      ]_vars

\* C6 happens: a patch carrying only a status set it on an order that keeps
\* the transaction id an earlier patch gave it, beside another order.
C6_Witness ==
    /\ req.route = "PATCH /orders/:id"
    /\ DOMAIN req.body = {"status"}
    /\ res.status = 200
    /\ res.doc \in orders
    /\ res.doc.status = "delivered"
    /\ res.doc.transactionId = Str("t1")
    /\ Cardinality(orders) = 2

\* exactly one order was added: pending, without transaction id, ordered by
\* website unless the body says otherwise, and it is the answer
OneOrderPlaced ==
    \E o \in orders' :
       /\ o \notin orders
       /\ orders' = orders \cup {o}
       /\ res'.doc = o
       /\ o.status = "pending"
       /\ o.transactionId = Null
       /\ "orderedBy" \notin DOMAIN req'.body => o.orderedBy = "website"

MissingEmptyOrZero(b, f) ==
    \/ f \notin DOMAIN b
    \/ b[f] = (IF f = "productId" THEN NoId
               ELSE IF f \in {"quantity", "totalPrice"} THEN 0 ELSE "")

WritesById ==
    {"PUT /api/products/:id", "DELETE /api/products/:id", "PUT /combo/:id",
     "DELETE /combo/:id", "PUT /banner/:id", "DELETE /banner/:id",
     "PATCH /orders/:id"}

CollectionOf(route) ==
    IF route \in {"PUT /api/products/:id", "DELETE /api/products/:id"}
    THEN products
    ELSE IF route \in {"PUT /combo/:id", "DELETE /combo/:id"} THEN combos
    ELSE IF route \in {"PUT /banner/:id", "DELETE /banner/:id"} THEN banners
    ELSE orders

\* C8: an update or delete by id of a product, combo product, banner or
\* order whose (well-formed) id matches no stored document answers 404 and
\* leaves the store as it was.
C8_AbsentIdIs404 ==
    [][ \A route \in WritesById :
          (/\ Served(route)
           /\ req'.id.kind = "oid"
           /\ Stored(CollectionOf(route), req'.id) = {})
             => /\ res'.status = 404
                /\ UNCHANGED <<products, combos, banners, orders>>
      ]_vars

\* the sequence lists exactly the documents of S, each once
ListsExactly(list, S) ==
    /\ Len(list) = Cardinality(S)
    /\ \A d \in S : \E i \in DOMAIN list : list[i] = d

\* no document of the list is older than one listed after it
NewestFirst(list) ==
    \A i, j \in DOMAIN list : i < j => list[i].createdAt >= list[j].createdAt

\* C9: GET /my-orders answers 400 without an email, 404 when no stored order
\* has exactly that buyerEmail, and otherwise 200 with exactly the orders
\* that have it, newest first; GET /orders answers 200 with all the stored
\* orders newest first, an empty array when there is none.
C9_ListOrders ==
    [][ /\ Served("GET /my-orders")
           => LET q     == req'.body
                  match == { o \in orders : o.buyerEmail = q.email }
              IN  IF "email" \notin DOMAIN q \/ q.email = ""
                  THEN res'.status = 400
                  ELSE IF match = {} THEN res'.status = 404
                  ELSE /\ res'.status = 200
                       /\ ListsExactly(res'.list, match)
                       /\ NewestFirst(res'.list)
        /\ Served("GET /orders")
           => /\ res'.status = 200
              /\ ListsExactly(res'.list, orders)
              /\ NewestFirst(res'.list)
      ]_vars

\* C9 happens: one buyer's only order was listed while another buyer's,
\* placed later, is stored too.
C9_Witness ==
    /\ req.route = "GET /my-orders"
    /\ res.status = 200
    /\ Len(res.list) = 1
    /\ \E o \in orders :
          o.buyerEmail # req.body.email /\ o.createdAt > res.list[1].createdAt

\* C10: GET /products answers 200 with exactly the stored products, or with
\* exactly those of the category asked for, newest first (an empty array
\* when there is none), and leaves the store as it was.
C10_ListProducts ==
    [][ Served("GET /products")
        => LET q     == req'.body
               given == "category" \in DOMAIN q /\ q.category # ""
               match == IF given
                        THEN { p \in products : p.category = q.category }
                        ELSE products
           IN  /\ res'.status = 200
               /\ ListsExactly(res'.list, match)
               /\ NewestFirst(res'.list)
               /\ products' = products
      ]_vars

\* C10 happens: a listing of two products created at different times.
C10_Witness ==
    /\ req.route = "GET /products"
    /\ res.status = 200
    /\ Len(res.list) = 2
    /\ res.list[1].createdAt > res.list[2].createdAt

\* the small and the capital form of the letters the searched text carries
CasePairs == { <<"a", "A">>, <<"b", "B">>, <<"m", "M">>, <<"z", "Z">> }

SameIgnoringCase(a, b) ==
    a = b \/ <<a, b>> \in CasePairs \/ <<b, a>> \in CasePairs

\* q occurs in the text, character for character but for the case of letters
ContainsLiterally(text, q) ==
    \E i \in 0..(Len(text) - Len(q)) :
       \A k \in 1..Len(q) : SameIgnoringCase(At(text, i + k), At(q, k))

OnlyWhiteSpace(q) == \A k \in 1..Len(q) : At(q, k) = " "

\* C11: GET /search answers 400 when q is missing, empty or only white
\* space; otherwise it answers 200 with exactly the products whose name or
\* model contains q as a literal substring, letters compared without regard
\* to case and every regex metacharacter standing for itself, newest first:
\* no character of q makes the request fail.
C11_Search ==
    [][ Served("GET /search")
        => LET query == req'.body
           IN  IF "q" \notin DOMAIN query \/ OnlyWhiteSpace(query.q)
               THEN res'.status = 400
               ELSE /\ res'.status = 200
                    /\ ListsExactly(res'.list,
                          { p \in products :
                              \/ ContainsLiterally(p.name, query.q)
                              \/ ContainsLiterally(p.model, query.q) })
                    /\ NewestFirst(res'.list)
      ]_vars

\* C11 happens: a search for "a+" found the product named "a+b" and not the
\* one named "aAb", which the pattern a+ read as a regular expression matches.
C11_Witness ==
    /\ req.route = "GET /search"
    /\ req.body = [q |-> "a+"]
    /\ res.status = 200
    /\ Len(res.list) = 1
    /\ res.list[1].name = "a+b"
    /\ \E p \in products : p.name = "aAb"

BeginsWithNumber(s) ==
    LET body == IF s # <<>> /\ Head(s) \in {"-", "+"} THEN Tail(s) ELSE s
    IN  /\ body # <<>>
        /\ \/ IsDigit(body[1])
           \/ body[1] = "." /\ Len(body) > 1 /\ IsDigit(body[2])

C13_NonNegative == \A p \in products : p.price >= 0 /\ p.discount >= 0

\* C14: every stored combo product has at least one image.
C14_ImagesNonEmpty == \A c \in combos : c.images # <<>>

\* C15: POST /banner without an image or without a caption answers 400 and
\* stores no banner.
C15_BannerRejected ==
    [][ (/\ Served("POST /banner")
         /\ \E f \in {"image", "caption"} : f \notin DOMAIN req'.body)
        => (res'.status = 400 /\ banners' = banners) ]_vars

\* the registrations answered with 201
Registered ==
    { c \in Calls : /\ calls[c].route = "POST /api/auth/register"
                    /\ calls[c].pc = "done"
                    /\ calls[c].status = 201 }

\* C16: however the registrations interleave, no two stored users have the
\* same email, and of the requests for one email at most one is answered
\* with 201.
C16_UniqueEmail ==
    /\ \A u, v \in users : u.email = v.email => u = v
    /\ \A c, d \in Registered :
          calls[c].body.email = calls[d].body.email => c = d

\* C16 happens: two registrations for one email both found no user with it;
\* the first to save was answered 201 and the other 500.
C16_Witness ==
    \E c, d \in Calls :
       /\ calls[c].route = "POST /api/auth/register"
       /\ calls[d].route = "POST /api/auth/register"
       /\ calls[c].body = calls[d].body
       /\ calls[c].pc = "done" /\ calls[c].status = 201
       /\ calls[d].pc = "done" /\ calls[d].status = 500
       /\ "role" \notin DOMAIN calls[d].body
       /\ Cardinality(users) = 1

\* C17: POST /admin answers {success: true} exactly when the submitted
\* username and password both equal the configured admin username and
\* password, and 401 otherwise; a request that leaves out the username or
\* the password always gets 401; and no request changes what is stored.
C17_AdminLogin ==
    [][ Served("POST /admin")
        => LET body == req'.body
               full == {"username", "password"} \subseteq DOMAIN body
               same == /\ full
                       /\ {"ADMIN_USERNAME", "ADMIN_PASSWORD"} \subseteq DOMAIN env
                       /\ body.username = env.ADMIN_USERNAME
                       /\ body.password = env.ADMIN_PASSWORD
           IN  /\ IF same THEN res'.status = 200 /\ res'.doc = [success |-> TRUE]
                  ELSE res'.status = 401
               /\ ~full => res'.status = 401
               /\ UNCHANGED <<products, orders, banners, combos, users>>
      ]_vars

\* C18: DELETE /api/products/:id and PUT /api/products/:id leave every
\* stored order as it was, the orders placed for the product deleted or
\* updated among them.
C18_OrdersKept ==
    [][ (Served("DELETE /api/products/:id") \/ Served("PUT /api/products/:id"))
        => orders' = orders ]_vars

\* C18 happens: a product was deleted and an order placed for it is stored.
C18_Witness ==
    /\ req.route = "DELETE /api/products/:id"
    /\ res.status = 200
    /\ \E o \in orders : o.productId = req.id.n /\ o.productId = res.doc._id

\* the requests deleting the product with the n-th id
Deletes(n) ==
    { c \in Calls : /\ calls[c].route = "DELETE /api/products/:id"
                    /\ calls[c].id = Oid(n) }

\* C19: when the requests deleting one product have all been answered, and
\* the product was stored when one of them came in, exactly one of them was
\* answered 200 with the deleted product and every other one 404, however
\* they were interleaved.
C19_OneDeleteWins ==
    \A n \in 1..(MaxDocs + 1) :
       (/\ \E c \in Deletes(n) : calls[c].stored
        /\ \A c \in Deletes(n) : calls[c].pc = "done")
       => \E w \in Deletes(n) :
             /\ calls[w].status = 200
             /\ calls[w].doc # NoDoc /\ calls[w].doc._id = n
             /\ \A c \in Deletes(n) \ {w} : calls[c].status = 404

\* C19 happens: two requests came in for a stored product before either was
\* served; one was answered 200 and the other 404.
C19_Witness ==
    \E c, d \in Calls :
       /\ c # d
       /\ calls[c].route = "DELETE /api/products/:id"
       /\ calls[c].id = calls[d].id
       /\ calls[c].stored /\ calls[d].stored
       /\ calls[c].pc = "done" /\ calls[c].status = 200
       /\ calls[d].pc = "done" /\ calls[d].status = 404

=============================================================================
